---- MODULE Spec2Model ----
(***************************************************************************)
(* sigmund: selector extraction from EVM bytecode (Bytecode) and           *)
(* concurrent signature resolution (Client, Sigmund::execute).             *)
(*                                                                         *)
(* Strings that the program slices or builds character by character        *)
(* (hex encodings, hashes, selectors) are sequences of one-character       *)
(* strings; byte buffers are sequences of integers 0..255.  Source indices *)
(* are 0-based, TLA+ sequences 1-based: At(b, i) reads b[i] of the source. *)
(***************************************************************************)
EXTENDS Integers, Sequences, FiniteSets, TLC

VARIABLES
    config,      \* Sigmund.config: [signatures, most_common, output]
    pc,          \* position of Sigmund::execute
    inner,       \* Bytecode.inner
    idx,         \* loop index of find_function_selectors
    selectors,   \* the HashSet built by find_function_selectors
    issued,      \* selectors for which a get_signature future was created
    pending,     \* futures still inside the FuturesUnordered
    results,     \* the Vec try_collect accumulates, in completion order
    completed,   \* history: [sel, raw] of every lookup that completed, in order
    abandoned,   \* futures dropped with the FuturesUnordered before completing
    signatures,  \* Vec<Signature> returned by get_signatures
    printed,     \* lines written to the console, in order
    out,         \* the SigmundOut built by execute
    file,        \* content of the output file
    result,      \* what the operation returned: "running", "Ok", or the error by origin
    input,       \* the argument of the conversion under check (a String, a SignatureItem)
    address      \* the Address built from it (Address.inner), if any

vars == <<config, pc, inner, idx, selectors, issued, pending, results, completed,
          abandoned, signatures, printed, out, file, result, input, address>>

----------------------------------------------------------------------------
(* Bounds of the model *)

\* longest byte buffer the scanner specification enumerates
MaxLen == 8

\* longest items list a provider response carries
MaxItems == 2

----------------------------------------------------------------------------
(* Bytecode::find_function_selectors *)

PUSH4 == 99

EQ == 20

selector_size == 5

HexDigits == <<"0", "1", "2", "3", "4", "5", "6", "7",
               "8", "9", "a", "b", "c", "d", "e", "f">>

\* hex::encode of one byte: two lowercase digits, high nibble first
ByteHex(b) == <<HexDigits[(b \div 16) + 1], HexDigits[(b % 16) + 1]>>

RECURSIVE hex_encode(_)
hex_encode(bs) == IF bs = <<>> THEN <<>> ELSE ByteHex(Head(bs)) \o hex_encode(Tail(bs))

saturating_sub(a, b) == IF a >= b THEN a - b ELSE 0

\* b[i] of the source (0-based)
At(b, i) == b[i + 1]

\* &b[lo..hi] of the source (0-based, hi exclusive)
Slice(b, lo, hi) == SubSeq(b, lo + 1, hi)

\* end of the range `0..self.inner.len().saturating_sub(selector_size)`
ScanBoundOffByOne(b) == saturating_sub(Len(b), selector_size - 1)

ScanBound(b) == saturating_sub(Len(b), selector_size)

\* the condition of the `if` in the loop body; && short-circuits
SelectorMatchNoEq(b, i) == At(b, i) = PUSH4

SelectorMatch(b, i) == At(b, i) = PUSH4 /\ At(b, i + selector_size) = EQ

\* an index the loop body would read outside the buffer (Rust panics there)
ReadsOutside(b, i) ==
    \/ i >= Len(b)
    \/ At(b, i) = PUSH4 /\ i + selector_size >= Len(b)

\* the value inserted into the set on a match
ExtractSelectorShifted(b, i) == hex_encode(Slice(b, i, i + selector_size - 1))

ExtractSelector(b, i) == hex_encode(Slice(b, i + 1, i + selector_size))

----------------------------------------------------------------------------
(* Signature and the provider's response (signature.rs, client.rs) *)

Chars(n, c) == [i \in 1..n |-> c]

\* SignatureItem values the provider may return
ItemA == [hash |-> Chars(8, "a") \o <<"0", "1">>, text |-> "transfer(address,uint256)"]

ItemB == [hash |-> Chars(8, "b") \o <<"0", "2">>, text |-> "approve(address,uint256)"]

Items == {ItemA, ItemB}

\* SignatureItem::default()
DefaultItem == [hash |-> <<>>, text |-> ""]

\* format!("{:.8}", s): at most the first 8 characters
Truncate8(s) == SubSeq(s, 1, IF Len(s) < 8 THEN Len(s) ELSE 8)

\* Signature::new
SignatureNewWholeHash(text, hash) == [text |-> text, hash |-> hash, selector |-> hash]

SignatureNew(text, hash) == [text |-> text, hash |-> hash, selector |-> Truncate8(hash)]

\* impl From<SignatureItem> / From<&SignatureItem> for Signature
SignatureFrom(item) == SignatureNew(item.text, item.hash)

\* impl Display for Signature (the colour codes left out)
Display(sig) == [bracket |-> Truncate8(sig.hash), text |-> sig.text]

\* What the network hands one lookup: the request fails to send, the body fails
\* to arrive, or a body arrives that is or is not a JSON SignatureResponse.
ItemLists == UNION {[1..n -> Items] : n \in 0..MaxItems}

RawOutcomes ==
    {[kind |-> k, items |-> <<>>] : k \in {"send_err", "bytes_err", "malformed"}}
    \cup {[kind |-> "json", items |-> l] : l \in ItemLists}

ErrResult == [tag |-> "Err", items |-> <<>>]

NoneResult == [tag |-> "None", items |-> <<>>]

SomeResult(items) == [tag |-> "Some", items |-> items]

\* Client::get_signature: `?` on send and on bytes, `.ok()` on the JSON parse
get_signature_strict(raw) ==
    IF raw.kind = "json" THEN SomeResult(raw.items) ELSE ErrResult

get_signature_lenient(raw) ==
    IF raw.kind = "json" THEN SomeResult(raw.items) ELSE NoneResult

get_signature(raw) ==
    IF raw.kind \in {"send_err", "bytes_err"} THEN ErrResult
    ELSE IF raw.kind = "json" THEN SomeResult(raw.items)
    ELSE NoneResult

\* results.into_iter().flatten(): the Some responses, in order
RECURSIVE SuccessfulUntilNone(_)
SuccessfulUntilNone(res) ==
    IF res = <<>> \/ Head(res).tag # "Some" THEN <<>>
    ELSE <<Head(res)>> \o SuccessfulUntilNone(Tail(res))

Successful(res) == SelectSeq(res, LAMBDA r : r.tag = "Some")

RECURSIVE MapSignatureFrom(_)
MapSignatureFrom(items) ==
    IF items = <<>> THEN <<>>
    ELSE <<SignatureFrom(Head(items))>> \o MapSignatureFrom(Tail(items))

\* response.items.first().unwrap_or(&SignatureItem::default())
LastOrDefault(items) == IF items = <<>> THEN DefaultItem ELSE items[Len(items)]

FirstOrDefault(items) == IF items = <<>> THEN DefaultItem ELSE items[1]

\* One iteration of `for response in successful`: what it pushes onto `sigs`.
\* The bool that get_signatures takes (named most_common in client.rs, fed from
\* the policy flag of the configuration) selects the arm: `true` keeps every
\* item of the response (AllMatches), `false` keeps the first one (FirstMatch).
PushResponseDedup(sigs, response, most_common) ==
    LET new == IF most_common
               THEN MapSignatureFrom(response.items)
               ELSE <<SignatureFrom(FirstOrDefault(response.items))>>
    IN  sigs \o SelectSeq(new, LAMBDA g : \A k \in DOMAIN sigs : sigs[k] # g)

PushResponse(sigs, response, most_common) ==
    IF most_common
    THEN sigs \o MapSignatureFrom(response.items)
    ELSE Append(sigs, SignatureFrom(FirstOrDefault(response.items)))

RECURSIVE AggregateInto(_, _, _)
AggregateInto(sigs, successful, most_common) ==
    IF successful = <<>> THEN sigs
    ELSE AggregateInto(PushResponse(sigs, Head(successful), most_common),
                       Tail(successful), most_common)

\* `let mut signatures = Vec::new(); for response in successful { ... }`
Aggregate(successful, most_common) == AggregateInto(<<>>, successful, most_common)

\* SigmundOut::new
SigmundOutNoSignatures(sels, sigs) == [selectors |-> sels, signatures |-> <<>>]

SigmundOut(sels, sigs) == [selectors |-> sels, signatures |-> sigs]

RECURSIVE PrintAll(_)
PrintAll(sigs) ==
    IF sigs = <<>> THEN <<>>
    ELSE <<[kind |-> "signature", line |-> Display(Head(sigs))]>> \o PrintAll(Tail(sigs))

----------------------------------------------------------------------------
(* Inputs *)

\* Config: signatures, most_common (the flag execute passes to get_signatures),
\* output (whether an output path is set).  The policy flag requires signatures.
Configs ==
    {c \in [signatures : BOOLEAN, most_common : BOOLEAN, output : BOOLEAN] :
        c.most_common => c.signatures}

\* Byte values the enumerated buffers are built from: EQ, JUMPI, PUSH4, DUP1
ScanAlphabet == {EQ, 87, PUSH4, 128}

\* the buffers of tests/bytecode.rs: 0xe01c63ddc632621461 and 0x12345678
TestWithSelector == <<224, 28, 99, 221, 198, 50, 98, 20, 97>>

TestWithoutSelector == <<18, 52, 86, 120>>

ScanInputs ==
    UNION {[1..n -> ScanAlphabet] : n \in 0..MaxLen}
    \cup {TestWithSelector, TestWithoutSelector}

\* One branch of a dispatch table: DUP1 PUSH4 <sel> EQ PUSH2 <offset> JUMPI
DispatchEntry(b) == <<128, PUSH4, b, b, b, b, EQ, 97, 0, b, 87>>

\* Bytecode that get_bytecode may return to execute: dispatch tables of 0 to 3
\* distinct selectors, one with a repeated selector, and the test buffer.
PipelineInputs ==
    { <<>>,
      DispatchEntry(170),
      DispatchEntry(170) \o DispatchEntry(187),
      DispatchEntry(170) \o DispatchEntry(187) \o DispatchEntry(170),
      DispatchEntry(170) \o DispatchEntry(187) \o DispatchEntry(204),
      TestWithSelector }

----------------------------------------------------------------------------
(* Sigmund::execute *)

Init ==
    /\ config \in Configs
    /\ pc = "start"
    /\ inner = <<>>
    /\ idx = 0
    /\ selectors = {}
    /\ issued = {}
    /\ pending = {}
    /\ results = <<>>
    /\ completed = <<>>
    /\ abandoned = {}
    /\ signatures = <<>>
    /\ printed = <<>>
    /\ out = <<>>
    /\ file = <<>>
    /\ result = "running"
    /\ input = <<>>
    /\ address = <<>>

\* get_bytecode fails (unreadable file, bad address, RPC error, bad hex): `?`
GetBytecodeErr ==
    /\ pc = "start"
    /\ pc' = "done"
    /\ result' = "Err(bytecode)"
    /\ UNCHANGED <<input, address, config, inner, idx, selectors, issued, pending, results, completed,
                   abandoned, signatures, printed, out, file>>

\* get_bytecode succeeds; find_function_selectors starts with an empty set
GetBytecodeOk ==
    /\ pc = "start"
    /\ \E b \in PipelineInputs : inner' = b
    /\ pc' = "scan"
    /\ idx' = 0
    /\ selectors' = {}
    /\ UNCHANGED <<input, address, config, issued, pending, results, completed, abandoned, signatures,
                   printed, out, file, result>>

\* one iteration of `for idx in 0..bound`; an out-of-range index panics
ScanIter ==
    /\ pc = "scan"
    /\ idx < ScanBound(inner)
    /\ IF ReadsOutside(inner, idx)
       THEN /\ pc' = "panic"
            /\ UNCHANGED <<idx, selectors>>
       ELSE /\ selectors' = IF SelectorMatch(inner, idx)
                            THEN selectors \cup {ExtractSelector(inner, idx)}
                            ELSE selectors
            /\ idx' = idx + 1
            /\ pc' = pc
    /\ UNCHANGED <<input, address, config, inner, issued, pending, results, completed, abandoned,
                   signatures, printed, out, file, result>>

\* the range is exhausted: find_function_selectors returns the set
ScanDone ==
    /\ pc = "scan"
    /\ idx >= ScanBound(inner)
    /\ pc' = "scanned"
    /\ UNCHANGED <<input, address, config, inner, idx, selectors, issued, pending, results, completed,
                   abandoned, signatures, printed, out, file, result>>

\* `if self.config.signatures`
DecodeRequestedNegated(c) == ~c.signatures

DecodeRequested(c) == c.signatures

\* signatures disabled: println!("{selectors:?}")
PrintSelectors ==
    /\ pc = "scanned"
    /\ ~DecodeRequested(config)
    /\ printed' = Append(printed, [kind |-> "selectors", line |-> selectors])
    /\ pc' = "report"
    /\ UNCHANGED <<input, address, config, inner, idx, selectors, issued, pending, results, completed,
                   abandoned, signatures, out, file, result>>

\* get_signatures: one get_signature future per selector into a FuturesUnordered;
\* with no selector try_collect is ready at once and the empty Vec is returned.
StartLookups ==
    /\ pc = "scanned"
    /\ DecodeRequested(config)
    /\ issued' = selectors
    /\ pending' = selectors
    /\ results' = <<>>
    /\ IF selectors = {}
       THEN /\ signatures' = Aggregate(Successful(<<>>), config.most_common)
            /\ printed' = printed \o PrintAll(signatures')
            /\ pc' = "report"
       ELSE /\ pc' = "collect"
            /\ UNCHANGED <<signatures, printed>>
    /\ UNCHANGED <<input, address, config, inner, idx, selectors, completed, abandoned, out, file, result>>

\* The futures dropped when try_collect returns Err because future s failed:
\* the FuturesUnordered owns them and is dropped with the TryCollect future.
DroppedNone(pend, s) == {}

DroppedWithStream(pend, s) == pend \ {s}

\* One future completes and try_collect takes its output.  An Err ends try_collect:
\* the FuturesUnordered and the Vec collected so far are dropped, get_signatures
\* and execute return the error.  After the last Ok the responses are aggregated
\* and execute prints every signature.
LookupComplete(s, raw) ==
    /\ pc = "collect"
    /\ s \in pending
    /\ completed' = Append(completed, [sel |-> s, raw |-> raw])
    /\ LET r == get_signature(raw) IN
       IF r.tag = "Err"
       THEN /\ results' = <<>>
            /\ abandoned' = DroppedWithStream(pending, s)
            /\ pending' = (pending \ {s}) \ abandoned'
            /\ result' = "Err(client)"
            /\ pc' = "done"
            /\ UNCHANGED <<signatures, printed>>
       ELSE /\ results' = Append(results, r)
            /\ pending' = pending \ {s}
            /\ IF pending' = {}
               THEN /\ signatures' = Aggregate(Successful(results'), config.most_common)
                    /\ printed' = printed \o PrintAll(signatures')
                    /\ pc' = "report"
               ELSE /\ pc' = pc
                    /\ UNCHANGED <<signatures, printed>>
            /\ UNCHANGED <<abandoned, result>>
    /\ UNCHANGED <<input, address, config, inner, idx, selectors, issued, out, file>>

\* SigmundOut::new, no output path: Ok(())
ReportNoOutput ==
    /\ pc = "report"
    /\ ~config.output
    /\ out' = <<SigmundOut(selectors, signatures)>>
    /\ result' = "Ok"
    /\ pc' = "done"
    /\ UNCHANGED <<input, address, config, inner, idx, selectors, issued, pending, results, completed,
                   abandoned, signatures, printed, file>>

\* SigmundOut::new, std::fs::write succeeds: Ok(())
WriteOk ==
    /\ pc = "report"
    /\ config.output
    /\ out' = <<SigmundOut(selectors, signatures)>>
    /\ file' = out'
    /\ result' = "Ok"
    /\ pc' = "done"
    /\ UNCHANGED <<input, address, config, inner, idx, selectors, issued, pending, results, completed,
                   abandoned, signatures, printed>>

\* SigmundOut::new, std::fs::write fails: `?` returns the io error
WriteFail ==
    /\ pc = "report"
    /\ config.output
    /\ out' = <<SigmundOut(selectors, signatures)>>
    /\ result' = "Err(io)"
    /\ pc' = "done"
    /\ UNCHANGED <<input, address, config, inner, idx, selectors, issued, pending, results, completed,
                   abandoned, signatures, printed, file>>

Next ==
    \/ GetBytecodeErr
    \/ GetBytecodeOk
    \/ ScanIter
    \/ ScanDone
    \/ PrintSelectors
    \/ StartLookups
    \/ \E s \in pending, raw \in RawOutcomes : LookupComplete(s, raw)
    \/ ReportNoOutput
    \/ WriteOk
    \/ WriteFail

Spec == Init /\ [][Next]_vars

----------------------------------------------------------------------------
(* The scanner alone, over every buffer up to MaxLen bytes *)

InitScan ==
    /\ config = [signatures |-> FALSE, most_common |-> FALSE, output |-> FALSE]
    /\ pc = "scan"
    /\ inner \in ScanInputs
    /\ idx = 0
    /\ selectors = {}
    /\ issued = {}
    /\ pending = {}
    /\ results = <<>>
    /\ completed = <<>>
    /\ abandoned = {}
    /\ signatures = <<>>
    /\ printed = <<>>
    /\ out = <<>>
    /\ file = <<>>
    /\ result = "running"
    /\ input = <<>>
    /\ address = <<>>

NextScan == ScanIter \/ ScanDone

SpecScan == InitScan /\ [][NextScan]_vars

----------------------------------------------------------------------------
(* Properties of the resolver and of execute, checked under Spec *)

TransportKinds == {"send_err", "bytes_err"}

\* completions (positions in the history) that were transport errors
TransportFailures == {i \in DOMAIN completed : completed[i].raw.kind \in TransportKinds}

\* completions whose body was a JSON SignatureResponse
JsonCompletions == {i \in DOMAIN completed : completed[i].raw.kind = "json"}

ItemsAt(i) == completed[i].raw.items

\* how many JSON responses completed up to and including position i
Rank(i) == Cardinality({j \in JsonCompletions : j <= i})

\* how many items the responses before position i carried
RECURSIVE ItemsBefore(_)
ItemsBefore(i) == IF i <= 1 THEN 0 ELSE ItemsBefore(i - 1) + Len(ItemsAt(i - 1))

\* get_signatures has returned Ok to execute
ResolvedOk ==
    /\ config.signatures
    /\ \/ pc = "report"
       \/ pc = "done" /\ result \in {"Ok", "Err(io)"}

\* C1: once a lookup of the batch has ended in a transport error, whatever the
\* order of completions and whichever policy is set, the call has returned the
\* error, no further lookup completes, and the caller holds no signature: none
\* is returned, printed or reported, the collected responses are dropped.
C1_FailFast ==
    TransportFailures # {} =>
        /\ TransportFailures = {Len(completed)}
        /\ pc = "done"
        /\ result = "Err(client)"
        /\ pending = {}
        /\ results = <<>>
        /\ signatures = <<>>
        /\ printed = <<>>
        /\ out = <<>>
        /\ file = <<>>

\* three lookups: two answered with candidates, then the third failed
C1_Witness ==
    /\ Cardinality(issued) = 3
    /\ Len(completed) = 3
    /\ completed[1].raw.kind = "json" /\ ItemsAt(1) # <<>>
    /\ completed[2].raw.kind = "json" /\ ItemsAt(2) # <<>>
    /\ completed[3].raw.kind = "send_err"
    /\ config.most_common
    /\ result = "Err(client)"

\* C2 as stated: a malformed body in any one lookup fails the whole call.
C2_MalformedBodyFailsBatch ==
    (pc \in {"report", "done"}
        /\ \E i \in DOMAIN completed : completed[i].raw.kind = "malformed")
    => (result = "Err(client)" /\ signatures = <<>>)

\* C2 amended: a malformed body is "not found" for that lookup: it is collected
\* as None, adds no element to the output, and does not fail the call; the call
\* fails exactly when a lookup ends in a transport error.
C2_MalformedBodyIsNotFound ==
    /\ result = "Err(client)" <=> TransportFailures # {}
    /\ \A i \in DOMAIN completed :
          (completed[i].raw.kind = "malformed" /\ TransportFailures = {})
          => /\ results[i] = NoneResult
             /\ pending = {} =>
                   /\ ResolvedOk
                   /\ Len(signatures) = IF config.most_common
                                        THEN ItemsBefore(Len(completed) + 1)
                                        ELSE Cardinality(JsonCompletions)

C2_Witness ==
    /\ ResolvedOk
    /\ Len(completed) = 2
    /\ completed[1].raw.kind = "malformed"
    /\ completed[2].raw.kind = "json"
    /\ Len(signatures) = 1
    /\ result = "Ok"

\* C3 as stated: when all lookups succeed, a response with zero items adds no
\* element under either policy, so every element of the output is a candidate
\* that some response contained.
C3_EmptyItemsContributeNothing ==
    ResolvedOk =>
        /\ \A k \in DOMAIN signatures :
              \E i \in JsonCompletions : \E j \in DOMAIN ItemsAt(i) :
                  signatures[k] = SignatureFrom(ItemsAt(i)[j])
        /\ Len(signatures) =
              IF config.most_common
              THEN ItemsBefore(Len(completed) + 1)
              ELSE Cardinality({i \in JsonCompletions : ItemsAt(i) # <<>>})

\* C4: FirstMatch (the flag passed to get_signatures is false).  When every
\* lookup succeeded, each selector was looked up once, each response with at
\* least one item put exactly one element into the output, at the response's
\* place in completion order, and that element is made from the response's
\* first item; the output is no longer than the number of input selectors.
C4_FirstMatch ==
    (ResolvedOk /\ ~config.most_common) =>
        /\ {completed[i].sel : i \in DOMAIN completed} = selectors
        /\ Len(completed) = Cardinality(selectors)
        /\ Len(signatures) = Cardinality(JsonCompletions)
        /\ Len(signatures) <= Cardinality(selectors)
        /\ \A i \in JsonCompletions :
              ItemsAt(i) # <<>> => signatures[Rank(i)] = SignatureFrom(ItemsAt(i)[1])

C4_Witness ==
    /\ ResolvedOk
    /\ ~config.most_common
    /\ Len(completed) = 3
    /\ \A i \in 1..3 : completed[i].raw.kind = "json" /\ Len(ItemsAt(i)) = 2
    /\ ItemsAt(2)[1] # ItemsAt(2)[2]
    /\ Len(signatures) = 3

\* C5: AllMatches (the flag passed to get_signatures is true).  When every
\* lookup succeeded, the output is all items of all responses, response after
\* response in completion order, each response's items in their order: its
\* length is the sum of the item counts and nothing is de-duplicated.
C5_AllMatches ==
    (ResolvedOk /\ config.most_common) =>
        /\ Len(signatures) = ItemsBefore(Len(completed) + 1)
        /\ \A i \in DOMAIN completed : \A k \in DOMAIN ItemsAt(i) :
              signatures[ItemsBefore(i) + k] = SignatureFrom(ItemsAt(i)[k])

\* the same item came back for two different selectors and is in the output twice
C5_Witness ==
    /\ ResolvedOk
    /\ config.most_common
    /\ Len(completed) = 2
    /\ completed[1].sel # completed[2].sel
    /\ ItemsAt(1) = <<ItemA>>
    /\ ItemsAt(2) = <<ItemA>>
    /\ signatures = <<SignatureFrom(ItemA), SignatureFrom(ItemA)>>

\* C6: a run with signatures enabled.  If the resolver failed, execute returned
\* its error, printed nothing and wrote no file.  If the resolver succeeded,
\* every signature it returned was printed, in order; the report execute builds
\* holds the scanned selector set and the whole signature sequence; and a file
\* that was written holds that report.
C6_AllOrNothing ==
    config.signatures =>
        /\ TransportFailures # {} => result = "Err(client)"
        /\ result = "Err(client)" =>
              (pc = "done" /\ printed = <<>> /\ out = <<>> /\ file = <<>>)
        /\ ResolvedOk =>
              /\ Len(printed) = Len(signatures)
              /\ \A k \in DOMAIN signatures :
                    printed[k] = [kind |-> "signature", line |-> Display(signatures[k])]
        /\ out # <<>> =>
              (out[1].selectors = selectors /\ out[1].signatures = signatures)
        /\ file # <<>> => (config.output /\ file = out)
        /\ result = "Ok" => (out # <<>> /\ (config.output => file = out))

\* one lookup answered with candidates, then another failed, output path set
C6_Witness ==
    /\ config.signatures
    /\ config.output
    /\ Len(completed) >= 2
    /\ completed[1].raw.kind = "json" /\ ItemsAt(1) # <<>>
    /\ result = "Err(client)"
    /\ printed = <<>>
    /\ file = <<>>

\* C7 as stated: with signatures disabled, once the bytecode was obtained the
\* run returns success, with or without an output path, and issues no lookup.
C7_SelectorOnlyAlwaysSucceeds ==
    (~config.signatures /\ pc = "done" /\ result # "Err(bytecode)")
    => (result = "Ok" /\ issued = {})

\* C7 amended: with signatures disabled the run issues no lookup, and once the
\* bytecode was obtained it returns success unless an output path is set and
\* writing the file fails; without an output path it always returns success.
C7_SelectorOnlySucceedsUnlessWriteFails ==
    ~config.signatures =>
        /\ issued = {}
        /\ completed = <<>>
        /\ (pc = "done" /\ result # "Err(bytecode)") =>
              /\ result = "Ok" \/ (config.output /\ result = "Err(io)" /\ file = <<>>)
              /\ ~config.output => result = "Ok"
              /\ printed = <<[kind |-> "selectors", line |-> selectors]>>

C7_Witness ==
    /\ ~config.signatures
    /\ config.output
    /\ pc = "done"
    /\ result = "Ok"
    /\ Cardinality(selectors) = 3
    /\ file = <<SigmundOut(selectors, <<>>)>>

----------------------------------------------------------------------------
(* Properties of the scanner, checked under SpecScan *)

\* JUMPI DUP1 PUSH4
Anchor == <<87, 128, PUSH4>>

\* positions p (0-based) where the three anchor bytes stand and 4 bytes follow
AnchorPositions(b) ==
    {p \in 0..(Len(b) - 1) : p + 7 <= Len(b) /\ Slice(b, p, p + 3) = Anchor}

\* positions i (0-based) of a PUSH4 byte with an EQ byte five bytes later
PushEqPositions(b) ==
    {i \in 0..(Len(b) - 1) : i + 5 < Len(b) /\ At(b, i) = PUSH4 /\ At(b, i + 5) = EQ}

\* C8 as stated: every anchor triple followed by 4 bytes inside the buffer puts
\* the hex encoding of those 4 bytes into the scan's result, whatever follows.
C8_AnchorAlwaysMatched ==
    pc = "scanned" =>
        \A p \in AnchorPositions(inner) :
            hex_encode(Slice(inner, p + 3, p + 7)) \in selectors

\* C8 amended: an anchor triple at p whose 4 bytes are followed, inside the
\* buffer, by the EQ byte (b[p+7] = 0x14) puts hex(b[p+3..p+7]) into the result.
C8_AnchorFollowedByEqMatched ==
    pc = "scanned" =>
        \A p \in AnchorPositions(inner) :
            (p + 7 < Len(inner) /\ At(inner, p + 7) = EQ)
                => hex_encode(Slice(inner, p + 3, p + 7)) \in selectors

C8_Witness ==
    /\ pc = "scanned"
    /\ \E p \in AnchorPositions(inner) :
          /\ p + 7 < Len(inner)
          /\ At(inner, p + 7) = EQ
          /\ hex_encode(Slice(inner, p + 3, p + 7)) \in selectors

\* C9 as stated: every buffer of 0 to 6 bytes scans to the empty set, no error.
C9_ShorterThanSevenIsEmpty ==
    Len(inner) <= 6 => (pc # "panic" /\ (pc = "scanned" => selectors = {}))

\* C9 amended: every buffer of 0 to 5 bytes scans to the empty set, no error.
C9_ShorterThanSixIsEmpty ==
    Len(inner) <= 5 => (pc # "panic" /\ (pc = "scanned" => selectors = {}))

C9_Witness ==
    /\ pc = "scanned"
    /\ Len(inner) = 5
    /\ At(inner, 0) = PUSH4
    /\ At(inner, 4) = EQ
    /\ selectors = {}

\* C10: the scan never reads outside the buffer, its loop always can advance
\* until it returns, and it returns exactly the hex encodings of the 4 bytes
\* between a PUSH4 byte and an EQ byte five positions later; 0x12345678 gives
\* the empty set and 0xe01c63ddc632621461 gives {"ddc63262"}.
C10_ExactlyPushEqSelectors ==
    /\ pc # "panic"
    /\ pc = "scan" => (idx <= Len(inner) /\ ENABLED NextScan)
    /\ pc = "scanned" =>
          /\ selectors = {hex_encode(Slice(inner, i + 1, i + 5)) :
                             i \in PushEqPositions(inner)}
          /\ inner = TestWithSelector =>
                selectors = {<<"d", "d", "c", "6", "3", "2", "6", "2">>}
          /\ inner = TestWithoutSelector => selectors = {}
          /\ PushEqPositions(inner) = {} => selectors = {}

\* two overlapping windows match and yield the same 4 bytes: one element
C10_Witness ==
    /\ pc = "scanned"
    /\ \E i, j \in PushEqPositions(inner) :
          /\ i < j
          /\ j < i + 5
          /\ Slice(inner, i + 1, i + 5) = Slice(inner, j + 1, j + 5)
    /\ Cardinality(selectors) = 1

----------------------------------------------------------------------------
(* The scan with the `deep` flag (Config::deep).  The anchor pass is the loop  *)
(* of find_function_selectors; the deep pass that follows it collects the 4   *)
(* bytes after every PUSH4 byte whose 4 bytes lie inside the buffer.          *)

\* find_function_selectors as a function of the buffer: the same loop, run to
\* its end
RECURSIVE ScanFrom(_, _, _)
ScanFrom(b, i, sels) ==
    IF i >= ScanBound(b) THEN sels
    ELSE ScanFrom(b, i + 1,
                  IF SelectorMatch(b, i) THEN sels \cup {ExtractSelector(b, i)} ELSE sels)

find_function_selectors(b) == ScanFrom(b, 0, {})

\* end of the deep pass's range: the window PUSH4 + 4 bytes must fit
DeepBoundShort(b) == saturating_sub(Len(b), selector_size)

DeepBound(b) == saturating_sub(Len(b), selector_size - 1)

\* what the deep pass adds at position i
DeepCollect(sels, b, i) ==
    IF At(b, i) = PUSH4 THEN sels \cup {hex_encode(Slice(b, i + 1, i + selector_size))}
    ELSE sels

DeepAlphabet == {EQ, PUSH4, 128}

DeepInputs ==
    UNION {[1..n -> DeepAlphabet] : n \in 0..MaxLen}
    \cup {TestWithSelector, TestWithoutSelector}

InitDeep ==
    /\ config \in {[signatures |-> FALSE, most_common |-> FALSE, output |-> FALSE,
                    deep |-> d] : d \in BOOLEAN}
    /\ pc = "scan"
    /\ inner \in DeepInputs
    /\ idx = 0
    /\ selectors = {}
    /\ issued = {}
    /\ pending = {}
    /\ results = <<>>
    /\ completed = <<>>
    /\ abandoned = {}
    /\ signatures = <<>>
    /\ printed = <<>>
    /\ out = <<>>
    /\ file = <<>>
    /\ result = "running"
    /\ input = <<>>
    /\ address = <<>>

\* the anchor pass is over: return, or start the deep pass
DeepBegin ==
    /\ pc = "scanned"
    /\ idx' = 0
    /\ pc' = IF config.deep THEN "deep" ELSE "returned"
    /\ UNCHANGED <<input, address, config, inner, selectors, issued, pending, results, completed,
                   abandoned, signatures, printed, out, file, result>>

DeepIter ==
    /\ pc = "deep"
    /\ idx < DeepBound(inner)
    /\ selectors' = DeepCollect(selectors, inner, idx)
    /\ idx' = idx + 1
    /\ UNCHANGED <<input, address, config, pc, inner, issued, pending, results, completed, abandoned,
                   signatures, printed, out, file, result>>

DeepDone ==
    /\ pc = "deep"
    /\ idx >= DeepBound(inner)
    /\ pc' = "returned"
    /\ UNCHANGED <<input, address, config, inner, idx, selectors, issued, pending, results, completed,
                   abandoned, signatures, printed, out, file, result>>

NextDeep == ScanIter \/ ScanDone \/ DeepBegin \/ DeepIter \/ DeepDone

SpecDeep == InitDeep /\ [][NextDeep]_vars

\* positions i (0-based) of a PUSH4 byte with 4 bytes left in the buffer
Push4Positions(b) == {i \in 0..(Len(b) - 1) : At(b, i) = PUSH4 /\ i + 5 <= Len(b)}

\* C11: for every buffer the scan with deep=true returns a superset of the scan
\* with deep=false (which is what find_function_selectors returns), and it holds
\* the hex encoding of the 4 bytes after every PUSH4 byte that has 4 bytes left;
\* the deep pass only ever adds to the set.
C11_DeepIsAdditive ==
    /\ pc = "returned" /\ ~config.deep => selectors = find_function_selectors(inner)
    /\ pc \in {"scanned", "deep", "returned"} => find_function_selectors(inner) \subseteq selectors
    /\ pc = "returned" /\ config.deep =>
          \A i \in Push4Positions(inner) :
              hex_encode(Slice(inner, i + 1, i + 5)) \in selectors

\* a deep scan that returned more than the plain scan, which itself found a
\* selector, with a PUSH4 byte exactly 4 bytes before the end of the buffer
C11_Witness ==
    /\ pc = "returned"
    /\ config.deep
    /\ find_function_selectors(inner) # {}
    /\ find_function_selectors(inner) # selectors
    /\ Len(inner) >= 5
    /\ At(inner, Len(inner) - 5) = PUSH4

----------------------------------------------------------------------------
(* impl TryFrom<String> for Bytecode *)

\* longest string the conversion specifications enumerate
MaxStr == 6

UpperHexDigits == <<"A", "B", "C", "D", "E", "F">>

IsHexChar(c) ==
    \/ \E k \in DOMAIN HexDigits : HexDigits[k] = c
    \/ \E k \in DOMAIN UpperHexDigits : UpperHexDigits[k] = c

\* the value of one hex digit, either case
HexVal(c) ==
    IF \E k \in DOMAIN HexDigits : HexDigits[k] = c
    THEN (CHOOSE k \in DOMAIN HexDigits : HexDigits[k] = c) - 1
    ELSE (CHOOSE k \in DOMAIN UpperHexDigits : UpperHexDigits[k] = c) + 9

RECURSIVE DecodePairs(_)
DecodePairs(s) ==
    IF s = <<>> THEN <<>>
    ELSE <<16 * HexVal(s[1]) + HexVal(s[2])>> \o DecodePairs(SubSeq(s, 3, Len(s)))

\* hex::decode: an odd length or a character that is no hex digit is an error
hex_decode(s) ==
    IF Len(s) % 2 = 1 \/ \E k \in DOMAIN s : ~IsHexChar(s[k])
    THEN [ok |-> FALSE, bytes |-> <<>>]
    ELSE [ok |-> TRUE, bytes |-> DecodePairs(s)]

\* str::strip_prefix("0x").unwrap_or(s): at most one prefix removed
StripOnePrefix(s) ==
    IF Len(s) >= 2 /\ s[1] = "0" /\ s[2] = "x" THEN SubSeq(s, 3, Len(s)) ELSE s

\* str::trim_start_matches("0x"): the prefix is removed as often as it repeats
RECURSIVE trim_start_matches_0x(_)
trim_start_matches_0x(s) ==
    IF Len(s) >= 2 /\ s[1] = "0" /\ s[2] = "x"
    THEN trim_start_matches_0x(SubSeq(s, 3, Len(s)))
    ELSE s

StrAlphabet == {"0", "x", "a", "F", "g"}

\* the strings of tests/bytecode.rs
TestValidHex == <<"0", "x", "5", "7", "6", "3", "8", "0", "6", "3", "a", "b", "c", "d", "1", "2", "3", "4">>

TestInvalidHex == <<"0", "x", "g", "1", "2", "3", "4", "5", "6", "7">>

DecodeInputs ==
    UNION {[1..n -> StrAlphabet] : n \in 0..MaxStr}
    \cup {TestValidHex, TestInvalidHex}

InitDecode ==
    /\ config = [signatures |-> FALSE, most_common |-> FALSE, output |-> FALSE]
    /\ pc = "try_from"
    /\ inner = <<>>
    /\ idx = 0
    /\ selectors = {}
    /\ issued = {}
    /\ pending = {}
    /\ results = <<>>
    /\ completed = <<>>
    /\ abandoned = {}
    /\ signatures = <<>>
    /\ printed = <<>>
    /\ out = <<>>
    /\ file = <<>>
    /\ result = "running"
    /\ input \in DecodeInputs
    /\ address = <<>>

\* Bytecode::try_from(String)
BytecodeTryFrom ==
    /\ pc = "try_from"
    /\ LET d == hex_decode(trim_start_matches_0x(input)) IN
       IF d.ok
       THEN inner' = d.bytes /\ result' = "Ok"
       ELSE inner' = inner /\ result' = "Err(hex)"
    /\ pc' = "done"
    /\ UNCHANGED <<input, address, config, idx, selectors, issued, pending, results,
                   completed, abandoned, signatures, printed, out, file>>

NextDecode == BytecodeTryFrom

SpecDecode == InitDecode /\ [][NextDecode]_vars

\* an upper-case hex digit as hex::encode writes it
Lower(c) ==
    IF \E k \in DOMAIN UpperHexDigits : UpperHexDigits[k] = c
    THEN HexDigits[(CHOOSE k \in DOMAIN UpperHexDigits : UpperHexDigits[k] = c) + 10]
    ELSE c

\* C12: Bytecode::try_from(String) succeeds exactly when the string without one
\* optional leading "0x" is an even-length run of hex digits, and then holds
\* the bytes those digits encode; every other string, one with a second "0x"
\* after the prefix included, is a decode error that builds no Bytecode.
C12_DecodesExactlyValidHex ==
    pc = "done" =>
        LET t == StripOnePrefix(input)
            valid == Len(t) % 2 = 0 /\ \A k \in DOMAIN t : IsHexChar(t[k])
        IN  /\ result = "Ok" <=> valid
            /\ result = "Ok" => hex_encode(inner) = [k \in DOMAIN t |-> Lower(t[k])]
            /\ result # "Ok" => (result = "Err(hex)" /\ inner = <<>>)

----------------------------------------------------------------------------
(* Signature::new and the conversions from SignatureItem, on their own and   *)
(* inside the resolver                                                         *)

\* longest hash string the signature specification enumerates
MaxHash == 9

\* SignatureItem values with any hash over two characters, with or without text
ItemInputs ==
    {[hash |-> h, text |-> t] :
        h \in UNION {[1..n -> {"a", "b"}] : n \in 0..MaxHash},
        t \in {"", "transfer(address,uint256)"}}

InitConvert ==
    /\ config = [signatures |-> FALSE, most_common |-> FALSE, output |-> FALSE]
    /\ pc = "from"
    /\ inner = <<>>
    /\ idx = 0
    /\ selectors = {}
    /\ issued = {}
    /\ pending = {}
    /\ results = <<>>
    /\ completed = <<>>
    /\ abandoned = {}
    /\ signatures = <<>>
    /\ printed = <<>>
    /\ out = <<>>
    /\ file = <<>>
    /\ result = "running"
    /\ input \in ItemInputs
    /\ address = <<>>

\* Signature::from(item) / Signature::from(&item): both call Signature::new
SignatureConvert ==
    /\ pc = "from"
    /\ signatures' = <<SignatureFrom(input)>>
    /\ pc' = "done"
    /\ result' = "Ok"
    /\ UNCHANGED <<input, address, config, inner, idx, selectors, issued, pending, results,
                   completed, abandoned, printed, out, file>>

InitSignature == Init \/ InitConvert

NextSignature == Next \/ SignatureConvert

SpecSignature == InitSignature /\ [][NextSignature]_vars

\* s is the first 8 characters of h (all of h when h is shorter)
IsFirst8(s, h) ==
    /\ Len(s) = (IF Len(h) < 8 THEN Len(h) ELSE 8)
    /\ \A k \in DOMAIN s : s[k] = h[k]

\* C13: every Signature built, by a conversion from any SignatureItem or as an
\* element of what the resolver returns, of the report and of the file, keeps
\* the item's hash and text and has as selector the first 8 characters of that
\* hash; the selector is never the one that was looked up.
C13_SelectorIsHashPrefix ==
    /\ \A k \in DOMAIN signatures : IsFirst8(signatures[k].selector, signatures[k].hash)
    /\ \A r \in DOMAIN out : \A k \in DOMAIN out[r].signatures :
          IsFirst8(out[r].signatures[k].selector, out[r].signatures[k].hash)
    /\ \A r \in DOMAIN file : \A k \in DOMAIN file[r].signatures :
          IsFirst8(file[r].signatures[k].selector, file[r].signatures[k].hash)
    /\ (input # <<>> /\ pc = "done") =>
          /\ Len(signatures) = 1
          /\ signatures[1].hash = input.hash
          /\ signatures[1].text = input.text
    /\ (config.signatures /\ ~config.most_common /\ pc = "report") =>
          \A i \in DOMAIN completed :
              (completed[i].raw.kind = "json" /\ completed[i].raw.items # <<>>)
              => \E k \in DOMAIN signatures :
                    /\ signatures[k].hash = completed[i].raw.items[1].hash
                    /\ IsFirst8(signatures[k].selector, completed[i].raw.items[1].hash)

\* the provider answered the lookup of one selector with an item whose hash
\* starts differently: the element carries the hash's prefix, not the lookup key
C13_Witness ==
    /\ config.signatures
    /\ pc = "done"
    /\ result = "Ok"
    /\ Len(completed) = 1
    /\ completed[1].raw.kind = "json"
    /\ completed[1].raw.items = <<ItemB>>
    /\ completed[1].sel = Chars(8, "a")
    /\ Len(signatures) = 1
    /\ signatures[1].selector = Chars(8, "b")
    /\ signatures[1].selector # completed[1].sel
    /\ file # <<>>

----------------------------------------------------------------------------
(* Address::validate and impl TryFrom<String> for Address (address.rs).       *)
(* The enumerated strings are ASCII, so `len()` is their number of characters. *)

AddressLen == 42

\* how far from 40 the length of an enumerated address body may be
MaxDelta == 2

\* str::starts_with("0x")
starts_with_0x(s) == Len(s) >= 2 /\ s[1] = "0" /\ s[2] = "x"

\* Address::validate with the hex check before the prefix check
validate_hex_first(s) ==
    IF Len(s) # AddressLen THEN "Err(Length)"
    ELSE IF ~hex_decode(SubSeq(s, 3, Len(s))).ok THEN "Err(Hex)"
    ELSE IF ~starts_with_0x(s) THEN "Err(Prefix)"
    ELSE "Ok"

\* Address::validate
validate(s) ==
    IF Len(s) # AddressLen THEN "Err(Length)"
    ELSE IF ~starts_with_0x(s) THEN "Err(Prefix)"
    ELSE IF ~hex_decode(SubSeq(s, 3, Len(s))).ok THEN "Err(Hex)"
    ELSE "Ok"

\* a body of n characters: the digits 1234567890 repeated, with the character c
\* at the positions in bad
AddressBody(n, bad, c) == [k \in 1..n |-> IF k \in bad THEN c ELSE HexDigits[(k % 10) + 1]]

BodyLengths == 0..3 \cup ((40 - MaxDelta)..(40 + MaxDelta))

\* the string of it_fails_on_invalid_address_prefix
TestNoPrefix == <<"1", "2", "3", "4", "5", "6", "7", "8", "9", "0", "1", "2", "3", "4", "5", "6", "7", "8", "9", "0", "1", "2", "3", "4", "5", "6", "7", "8", "9", "0", "1", "2", "3", "4", "5", "6", "7", "8", "9", "0", "1", "2">>

\* Strings handed to validate and try_from: up to two leading characters and a
\* body; this holds the strings of tests/address.rs
AddressInputs ==
    UNION {{pre \o AddressBody(n, bad, c) :
               pre \in UNION {[1..m -> {"0", "x", "1"}] : m \in 0..2},
               bad \in SUBSET ({1, 20, n} \cap (1..n)),
               c \in {"z", "F", "x"}} : n \in BodyLengths}
    \cup {TestNoPrefix}

InitAddress ==
    /\ config = [signatures |-> FALSE, most_common |-> FALSE, output |-> FALSE]
    /\ pc = "address"
    /\ inner = <<>>
    /\ idx = 0
    /\ selectors = {}
    /\ issued = {}
    /\ pending = {}
    /\ results = <<>>
    /\ completed = <<>>
    /\ abandoned = {}
    /\ signatures = <<>>
    /\ printed = <<>>
    /\ out = <<>>
    /\ file = <<>>
    /\ result = "running"
    /\ input \in AddressInputs
    /\ address = <<>>

\* Address::validate(&input)
ValidateCall ==
    /\ pc = "address"
    /\ result' = validate(input)
    /\ pc' = "validated"
    /\ UNCHANGED <<input, address, config, inner, idx, selectors, issued, pending, results,
                   completed, abandoned, signatures, printed, out, file>>

\* Address::try_from(input): `Self::validate(&address)?; Ok(Self { inner: address })`
AddressTryFrom ==
    /\ pc = "address"
    /\ result' = validate(input)
    /\ address' = IF result' = "Ok" THEN <<input>> ELSE address
    /\ pc' = "converted"
    /\ UNCHANGED <<input, config, inner, idx, selectors, issued, pending, results,
                   completed, abandoned, signatures, printed, out, file>>

NextAddress == ValidateCall \/ AddressTryFrom

SpecAddress == InitAddress /\ [][NextAddress]_vars

\* C14: validate returns Ok exactly for a string of 42 characters that starts
\* with "0x" and has 40 hex digits after it; otherwise the error of the first
\* failing check, in the order length, prefix, hex.  try_from returns what
\* validate returns, and on Ok the Address holds the input unchanged.
C14_AddressValidation ==
    LET len_ok == Len(input) = 42
        prefix_ok == len_ok /\ input[1] = "0" /\ input[2] = "x"
        hex_ok == prefix_ok /\ \A k \in 3..42 : IsHexChar(input[k])
    IN  pc \in {"validated", "converted"} =>
            /\ result = "Ok" <=> hex_ok
            /\ result = "Err(Length)" <=> ~len_ok
            /\ result = "Err(Prefix)" <=> (len_ok /\ ~prefix_ok)
            /\ result = "Err(Hex)" <=> (prefix_ok /\ ~hex_ok)
            /\ pc = "validated" => address = <<>>
            /\ pc = "converted" => address = (IF hex_ok THEN <<input>> ELSE <<>>)

\* 42 characters, no "0x" in front and a character that is no hex digit: the
\* prefix error is the one returned
C14_Witness ==
    /\ pc = "converted"
    /\ Len(input) = 42
    /\ input[1] = "1"
    /\ input[42] = "z"
    /\ result = "Err(Prefix)"
    /\ address = <<>>

----------------------------------------------------------------------------
(* Concurrency of the resolver, checked under Spec *)

CompletedSelectors == {completed[i].sel : i \in DOMAIN completed}

\* C15: once a lookup has failed and the call has returned its error, no lookup
\* of the batch is in flight and none can complete any more; the lookups that
\* were pending when the failure was observed are exactly the abandoned ones,
\* and none of them is among those that completed.  Nothing is abandoned
\* otherwise.
C15_SiblingsAbandoned ==
    /\ result = "Err(client)" =>
          /\ pending = {}
          /\ ~ENABLED (\E s \in issued, raw \in RawOutcomes : LookupComplete(s, raw))
          /\ ~ENABLED Next
          /\ abandoned = issued \ CompletedSelectors
          /\ Len(completed) + Cardinality(abandoned) = Cardinality(issued)
          /\ results = <<>>
          /\ signatures = <<>>
    /\ result # "Err(client)" =>
          /\ abandoned = {}
          /\ pending = issued \ CompletedSelectors

\* three lookups: one answered, one failed, the third was still pending
C15_Witness ==
    /\ result = "Err(client)"
    /\ Cardinality(issued) = 3
    /\ Len(completed) = 2
    /\ completed[1].raw.kind = "json"
    /\ completed[2].raw.kind = "bytes_err"
    /\ Cardinality(abandoned) = 1
    /\ pending = {}

\* The history of completions replayed in another order, and what
\* get_signatures returns for it.
Reordered(p) == [i \in DOMAIN completed |-> completed[p[i]]]

ResultsOf(h) == [i \in DOMAIN h |-> get_signature(h[i].raw)]

ResolveOf(h) == Aggregate(Successful(ResultsOf(h)), config.most_common)

\* what one answered lookup contributes under the configured policy
Contribution(raw) ==
    IF get_signature(raw).tag = "Some"
    THEN PushResponse(<<>>, get_signature(raw), config.most_common)
    ELSE <<>>

RECURSIVE Offset(_, _)
Offset(h, i) == IF i <= 1 THEN 0 ELSE Offset(h, i - 1) + Len(Contribution(h[i - 1].raw))

\* sigs is the contributions of the history h, one contiguous group per
\* lookup, the groups in the order of h and each group in provider rank order
GroupsInOrder(sigs, h) ==
    /\ Len(sigs) = Offset(h, Len(h) + 1)
    /\ \A i \in DOMAIN h :
          SubSeq(sigs, Offset(h, i) + 1, Offset(h, i + 1)) = Contribution(h[i].raw)

Count(sigs, g) == Cardinality({k \in DOMAIN sigs : sigs[k] = g})

SameMultiset(a, b) ==
    \A g \in {a[k] : k \in DOMAIN a} \cup {b[k] : k \in DOMAIN b} :
        Count(a, g) = Count(b, g)

\* C16: when no lookup failed, one lookup was issued and completed per distinct
\* selector, and had the same answers arrived in any other order the call
\* would have returned the same multiset of signatures as it did: the
\* contributions of the lookups, each one contiguous and in provider rank
\* order, the groups in completion order.
C16_CompletionOrderIndependent ==
    ResolvedOk =>
        /\ issued = selectors
        /\ CompletedSelectors = selectors
        /\ Len(completed) = Cardinality(selectors)
        /\ GroupsInOrder(signatures, completed)
        /\ \A p \in Permutations(DOMAIN completed) :
              /\ SameMultiset(ResolveOf(Reordered(p)), signatures)
              /\ GroupsInOrder(ResolveOf(Reordered(p)), Reordered(p))

\* three answers, one of them no match, with a two-item group; another
\* completion order gives a different sequence
C16_Witness ==
    /\ ResolvedOk
    /\ config.most_common
    /\ Len(completed) = 3
    /\ ItemsAt(1) = <<ItemA, ItemB>>
    /\ completed[2].raw.kind = "malformed"
    /\ ItemsAt(3) = <<ItemB>>
    /\ \E p \in Permutations(DOMAIN completed) : ResolveOf(Reordered(p)) # signatures

====
